---- MODULE Spec2Model ----
(***************************************************************************)
(* Model of the WhatsApp bridge's authentication core:                     *)
(*   app/core/auth.py          active-user register, credential writers,   *)
(*                             get_drive_service (tool subsystem)          *)
(*   app/utils/sys_path_fixer  the gate check_and_clean_files              *)
(*   app/api/webhook.py        the inbound webhook                         *)
(*   app/api/auth.py           OAuth redirect and callback                 *)
(* Strings are sequences of one-character strings, so that strip, replace, *)
(* quote, unquote and query parsing are computed as Python computes them.  *)
(***************************************************************************)
EXTENDS Integers, Sequences, FiniteSets, TLC

\* ------------------------------------------------------------------ bounds
MaxRequests == 3    \* handler invocations (webhook + callback) per behaviour
MaxCodes == 2       \* authorization codes the provider issues per behaviour
MaxDay == 2         \* calendar days the clock runs through
MaxChatRequests == 2  \* handler invocations in a run with /chat requests
MaxToolCalls == 1   \* get_drive_service calls by the tool subsystem
MaxFaultRequests == 2   \* handler invocations in a run with failures
MaxUuids == 2       \* thread identifiers process_message generates

Tasks == {1, 2}     \* concurrently running handler tasks of the event loop

\* ------------------------------------------------------------ text helpers
Whitespace == {" ", "\n"}

RECURSIVE LStrip(_)
LStrip(s) == IF s # <<>> /\ Head(s) \in Whitespace THEN LStrip(Tail(s)) ELSE s

RECURSIVE RStrip(_)
RStrip(s) ==
    IF s # <<>> /\ s[Len(s)] \in Whitespace
    THEN RStrip(SubSeq(s, 1, Len(s) - 1))
    ELSE s

\* str.strip()
Strip(s) == RStrip(LStrip(s))

\* str.replace(c, "") for a one-character c
RemoveChar(s, c) == SelectSeq(s, LAMBDA x : x # c)

\* str.replace("whatsapp:", ""): the prefix is one token of the alphabet
RemovePrefixToken(s) == RemoveChar(s, "whatsapp:")

\* the pieces of s between occurrences of the separator c (str.split(c))
RECURSIVE SplitOn(_, _)
SplitOn(s, c) ==
    IF \A i \in 1..Len(s) : s[i] # c
    THEN <<s>>
    ELSE LET i == CHOOSE k \in 1..Len(s) :
                      s[k] = c /\ \A j \in 1..(k - 1) : s[j] # c
         IN  <<SubSeq(s, 1, i - 1)>> \o SplitOn(SubSeq(s, i + 1, Len(s)), c)

\* position of the first c in s, 0 when there is none
FirstIndex(s, c) ==
    IF \E i \in 1..Len(s) : s[i] = c
    THEN CHOOSE k \in 1..Len(s) : s[k] = c /\ \A j \in 1..(k - 1) : s[j] # c
    ELSE 0

\* --------------------------------------------------- percent encoding
\* urllib.parse.quote leaves letters, digits and "_.-~/" alone
\* ("U" and "M" stand for the key texts of the state object, see JsonDumps)
SafeChars ==
    {"h", "i", "a", "b", "n", "u", "m", "z", "U", "M", "undefined",
     "0", "1", "2", "3", "5", "6", "7", "A", "B", "C", "D"}

HexOf(c) ==
    CASE c = " " -> <<"2", "0">>
      [] c = "+" -> <<"2", "B">>
      [] c = "%" -> <<"2", "5">>
      [] c = "&" -> <<"2", "6">>
      [] c = "=" -> <<"3", "D">>
      [] c = "{" -> <<"7", "B">>
      [] c = "}" -> <<"7", "D">>
      [] c = "," -> <<"2", "C">>
      [] c = "\"" -> <<"2", "2">>
      [] c = "\\" -> <<"5", "C">>
      [] c = "\n" -> <<"0", "A">>
      [] OTHER -> <<"0", "0">>

RECURSIVE Quote(_)
Quote(s) ==
    IF s = <<>> THEN <<>>
    ELSE (IF Head(s) \in SafeChars THEN <<Head(s)>> ELSE <<"%">> \o HexOf(Head(s)))
         \o Quote(Tail(s))

\* the character a two-digit code stands for ("" when the digits are no code
\* of this alphabet)
CharOf(a, b) ==
    CASE a = "2" /\ b = "0" -> " "
      [] a = "2" /\ b = "B" -> "+"
      [] a = "2" /\ b = "5" -> "%"
      [] a = "2" /\ b = "6" -> "&"
      [] a = "3" /\ b = "D" -> "="
      [] a = "7" /\ b = "B" -> "{"
      [] a = "7" /\ b = "D" -> "}"
      [] a = "2" /\ b = "C" -> ","
      [] a = "2" /\ b = "2" -> "\""
      [] a = "5" /\ b = "C" -> "\\"
      [] a = "0" /\ b = "A" -> "\n"
      [] OTHER -> ""

\* urllib.parse.unquote: a "%XX" it can decode is replaced, anything else is kept
RECURSIVE Unquote(_)
Unquote(s) ==
    IF s = <<>> THEN <<>>
    ELSE IF Head(s) = "%" /\ Len(s) >= 3 /\ CharOf(s[2], s[3]) # ""
         THEN <<CharOf(s[2], s[3])>> \o Unquote(SubSeq(s, 4, Len(s)))
         ELSE <<Head(s)>> \o Unquote(Tail(s))

\* "+" means a space in a query string (urllib.parse.parse_qsl)
PlusToSpace(s) == [i \in 1..Len(s) |-> IF s[i] = "+" THEN " " ELSE s[i]]

\* ------------------------------------------------------------------ JSON
\* json.dumps of a str: quotes around the text, with the quote, the backslash and
\* the newline escaped
RECURSIVE JsonEscape(_)
JsonEscape(s) ==
    IF s = <<>> THEN <<>>
    ELSE (CASE Head(s) = "\"" -> <<"\\", "\"">>
            [] Head(s) = "\\" -> <<"\\", "\\">>
            [] Head(s) = "\n" -> <<"\\", "n">>
            [] OTHER -> <<Head(s)>>)
         \o JsonEscape(Tail(s))

JsonStr(s) == <<"\"">> \o JsonEscape(s) \o <<"\"">>

\* json.dumps({"user_number": u, "msg": m}); "U" is the text "user_number": and
\* "M" the text "msg":
JsonDumps(u, m) == <<"{", "U">> \o JsonStr(u) \o <<",", "M">> \o JsonStr(m) \o <<"}">>

\* Reads a JSON string at the head of s: [ok, value, rest]
RECURSIVE JsonStrBody(_, _)
JsonStrBody(s, acc) ==
    IF s = <<>> THEN [ok |-> FALSE, value |-> <<>>, rest |-> <<>>]
    ELSE IF Head(s) = "\"" THEN [ok |-> TRUE, value |-> acc, rest |-> Tail(s)]
    ELSE IF Head(s) = "\n" THEN [ok |-> FALSE, value |-> <<>>, rest |-> <<>>]
    ELSE IF Head(s) = "\\"
         THEN IF Len(s) >= 2 /\ s[2] \in {"\"", "\\", "n"}
              THEN JsonStrBody(SubSeq(s, 3, Len(s)),
                               Append(acc, IF s[2] = "n" THEN "\n" ELSE s[2]))
              ELSE [ok |-> FALSE, value |-> <<>>, rest |-> <<>>]
    ELSE JsonStrBody(Tail(s), Append(acc, Head(s)))

JsonReadStr(s) ==
    IF s # <<>> /\ Head(s) = "\""
    THEN JsonStrBody(Tail(s), <<>>)
    ELSE [ok |-> FALSE, value |-> <<>>, rest |-> <<>>]

\* json.loads followed by the two .get calls of auth_callback:
\*   kind "invalid"   the text is no JSON
\*   kind "other"     a JSON list, string, number or null: a value without .get
\*   kind "object"    hasUser/hasMsg tell which keys are there
JsonFail == [kind |-> "invalid", hasUser |-> FALSE, user |-> <<>>,
             hasMsg |-> FALSE, msg |-> <<>>]

JsonOther == [JsonFail EXCEPT !.kind = "other"]

JsonLoadsState(s) ==
    IF s = <<"{", "}">>
    THEN [kind |-> "object", hasUser |-> FALSE, user |-> <<>>,
          hasMsg |-> FALSE, msg |-> <<>>]
    ELSE IF s \in {<<"[", "]">>, <<"null">>}
            \/ (Len(s) = 1 /\ s[1] \in {"0", "1", "2", "3", "5", "6", "7"})
            \/ (JsonReadStr(s).ok /\ JsonReadStr(s).rest = <<>>)
    THEN JsonOther
    ELSE IF Len(s) >= 2 /\ s[1] = "{" /\ s[2] = "U"
    THEN LET a == JsonReadStr(SubSeq(s, 3, Len(s)))
         IN  IF a.ok /\ Len(a.rest) >= 2 /\ a.rest[1] = "," /\ a.rest[2] = "M"
             THEN LET b == JsonReadStr(SubSeq(a.rest, 3, Len(a.rest)))
                  IN  IF b.ok /\ b.rest = <<"}">>
                      THEN [kind |-> "object", hasUser |-> TRUE, user |-> a.value,
                            hasMsg |-> TRUE, msg |-> b.value]
                      ELSE JsonFail
             ELSE JsonFail
    ELSE JsonFail

\* ---------------------------------------------------------------- state
VARIABLES
    credFile,     \* credentials.json, the shared credential artifact
    sidecar,      \* ~/.gmail-mcp/credentials.json, the sidecar copy
    multiFiles,   \* whether a leftover ./*.multi.json file exists
    activeFile,   \* active_user.txt, the active-identity register
    task,         \* the handler tasks of the event loop
    inbox,        \* consent links delivered by the messaging sink
    issued,       \* the provider's authorization codes, by code number
    today,        \* the calendar day the clock last showed a handler
    nreq,         \* handler invocations so far
    ntool,        \* get_drive_service calls so far
    toolRes,      \* how the last get_drive_service call ended
    session,      \* history: the sender whose callback last returned the success
                  \* page, until a request of another sender starts
    faults,       \* whether file and network operations may fail in this run
    probe         \* the last direct call of a core function, and what it gave

vars == <<credFile, sidecar, multiFiles, activeFile, task, inbox, issued,
          today, nreq, ntool, toolRes, session, faults, probe>>

\* the outcomes an operation that can fail may have in this run
MayFail == IF faults THEN {FALSE, TRUE} ELSE {FALSE}

\* A credential is known by the code exchange that produced it and by the
\* user_number of the callback that ran the exchange.
Cred(code, by) == [code |-> code, by |-> by]
NoContent == Cred(0, <<>>)
Absent == [exists |-> FALSE, cred |-> NoContent]
Holding(c) == [exists |-> TRUE, cred |-> c]

NoActiveFile == [exists |-> FALSE, text |-> <<>>]

\* ------------------------------------------------ active-user register
\* user_number.strip().replace("+", "")
Normalize(u) == RemoveChar(Strip(u), "+")

\* (mutant) the number written as given, not normalized
WrittenActiveFileRaw(u) == [exists |-> TRUE, text |-> u \o <<"\n">>]

\* (mutant) the file opened for appending: a membership list, not a slot
WrittenActiveFileAppend(u) ==
    [exists |-> TRUE, text |-> activeFile.text \o Normalize(u) \o <<"\n">>]

\* add_active_user: the file is rewritten with the one normalized number
WrittenActiveFile(u) == [exists |-> TRUE, text |-> Normalize(u) \o <<"\n">>]

\* {line.strip() for line in f if line.strip()}
ActiveUsers(f) ==
    IF ~f.exists THEN {}
    ELSE LET lines == SplitOn(f.text, "\n")
         IN  {Strip(lines[i]) : i \in 1..Len(lines)} \ {<<>>}

\* is_user_active: False when the file cannot be opened
IsUserActiveIn(f, u) == f.exists /\ Normalize(u) \in ActiveUsers(f)

is_user_active(u) == IsUserActiveIn(activeFile, u)

\* ------------------------------------------------------------- the gate
\* (mutant) the verdict without the os.path.exists test
GateVerdictNoArtifact(cf, af, u) == IsUserActiveIn(af, u)

\* check_and_clean_files, the verdict
GateVerdict(cf, af, u) == cf.exists /\ IsUserActiveIn(af, u)

check_and_clean_files(u) == GateVerdict(credFile, activeFile, u)

\* safe_delete: the file is gone afterwards unless os.remove raised
SafeDelete(f, fails) == IF f.exists /\ fails THEN f ELSE Absent

\* (mutant) the cleanup returns early when credentials.json is not there
GateEffectCredFirst(u, failMulti, failCred, failSide) ==
    IF check_and_clean_files(u) \/ ~credFile.exists
    THEN UNCHANGED <<credFile, sidecar, multiFiles>>
    ELSE /\ multiFiles' = (multiFiles /\ failMulti)
         /\ credFile' = SafeDelete(credFile, failCred)
         /\ sidecar' = SafeDelete(sidecar, failSide)

\* (mutant) a deletion that fails ends the cleanup
GateEffectStopsAtFailure(u, failMulti, failCred, failSide) ==
    IF check_and_clean_files(u)
    THEN UNCHANGED <<credFile, sidecar, multiFiles>>
    ELSE LET stopped1 == multiFiles /\ failMulti
             stopped2 == stopped1 \/ (credFile.exists /\ failCred)
         IN  /\ multiFiles' = (multiFiles /\ failMulti)
             /\ credFile' = IF stopped1 THEN credFile
                            ELSE SafeDelete(credFile, failCred)
             /\ sidecar' = IF stopped2 THEN sidecar
                           ELSE SafeDelete(sidecar, failSide)

\* (mutant) the cleanup leaves the sidecar copy alone
GateEffectKeepsSidecar(u, failMulti, failCred, failSide) ==
    IF check_and_clean_files(u)
    THEN UNCHANGED <<credFile, sidecar, multiFiles>>
    ELSE /\ multiFiles' = (multiFiles /\ failMulti)
         /\ credFile' = SafeDelete(credFile, failCred)
         /\ sidecar' = sidecar

\* check_and_clean_files, the files afterwards: untouched on True; on False the
\* *.multi.json files, credentials.json and the sidecar go through safe_delete
GateEffect(u, failMulti, failCred, failSide) ==
    IF check_and_clean_files(u)
    THEN UNCHANGED <<credFile, sidecar, multiFiles>>
    ELSE /\ multiFiles' = (multiFiles /\ failMulti)
         /\ credFile' = SafeDelete(credFile, failCred)
         /\ sidecar' = SafeDelete(sidecar, failSide)

\* (mutant) safe_delete without its os.path.exists test
RemovalsUnguarded(failMulti, failCred, failSide) ==
    <<IF failMulti THEN "fail:multi" ELSE "rm:multi",
      IF failCred THEN "fail:cred" ELSE "rm:cred",
      IF failSide THEN "fail:side" ELSE "rm:side">>

\* the os.remove calls of a cleanup, in order, each with how it ended; a file
\* that does not exist is skipped by safe_delete
Removals(failMulti, failCred, failSide) ==
    (IF multiFiles
     THEN <<IF failMulti THEN "fail:multi" ELSE "rm:multi">> ELSE <<>>)
    \o (IF credFile.exists
        THEN <<IF failCred THEN "fail:cred" ELSE "rm:cred">> ELSE <<>>)
    \o (IF sidecar.exists
        THEN <<IF failSide THEN "fail:side" ELSE "rm:side">> ELSE <<>>)

\* ------------------------------------------------------- handler tasks
Ev(ev, who, text, n) == [ev |-> ev, who |-> who, text |-> text, n |-> n]

NoParam == [present |-> FALSE, text |-> <<>>]
Param(x) == [present |-> TRUE, text |-> x]

IdleTask ==
    [kind |-> "none", pc |-> "idle", from |-> <<>>, user |-> <<>>, msg |-> <<>>,
     thread |-> <<>>, code |-> 0, raw |-> NoParam, day |-> 0, seq |-> 0,
     trace |-> <<>>, status |-> 0]

\* a new request runs in the first task slot that is not in the middle of a request
Free(t) ==
    /\ task[t].pc \in {"idle", "done"}
    /\ \A o \in Tasks : o < t => task[o].pc = "await"
    /\ nreq < MaxRequests

\* f"{user_number}_{today_date}"
ThreadId(u, day) == u \o <<"_", ToString(day)>>

\* ------------------------------------------------- the agent service
\* What agent.ainvoke can give: it raises with a cause; it returns a dict with
\* "messages" (each an AIMessage with its content, or some other message); or
\* it returns something else, which str() turns into a text.
AIMessage(c) == [ai |-> TRUE, content |-> c]
OtherMessage == [ai |-> FALSE, content |-> <<"tool">>]
Raised(cause) == [shape |-> "raises", cause |-> cause, messages |-> <<>>]
WithMessages(ms) == [shape |-> "dict", cause |-> <<>>, messages |-> ms]
OtherResult == [shape |-> "other", cause |-> <<>>, messages |-> <<>>]

AgentResults(m) ==
    {Raised(<<"timeout">>),
     WithMessages(<<OtherMessage, AIMessage(<<"re:">> \o m)>>),
     WithMessages(<<AIMessage(<<"draft">>), AIMessage(<<"re:">> \o m), OtherMessage>>),
     WithMessages(<<OtherMessage>>),
     WithMessages(<<>>),
     OtherResult}

\* (mutant) the messages searched from the front
FirstAIContent(ms) ==
    LET ais == {i \in 1..Len(ms) : ms[i].ai}
    IN  IF ais = {} THEN <<"Couldn't generate a proper response.">>
        ELSE ms[CHOOSE i \in ais : \A j \in ais : i <= j].content

\* for msg in reversed(result["messages"]): the first AIMessage met gives the
\* reply; none gives the fallback text
LastAIContent(ms) ==
    LET ais == {i \in 1..Len(ms) : ms[i].ai}
    IN  IF ais = {} THEN <<"Couldn't generate a proper response.">>
        ELSE ms[CHOOSE i \in ais : \A j \in ais : j <= i].content

\* process_message, the text returned, given whether the global agent is set and
\* what ainvoke gives
process_message(agentSet, r) ==
    IF ~agentSet THEN <<"Agent is not initialized.">>
    ELSE CASE r.shape = "raises" -> <<"Error:">> \o r.cause
           [] r.shape = "dict" -> LastAIContent(r.messages)
           [] OTHER -> <<"str(result)">>

\* the reply texts process_message may return for a message in a running
\* application, whose agent the startup has initialized
AgentReplies(m) == {process_message(TRUE, r) : r \in AgentResults(m)}

NoSession == [who |-> <<>>, day |-> 0]

\* history: a request of another sender ends the session
SessionAfter(u) == IF session.who = Normalize(u) THEN session ELSE NoSession

\* ---------------------------------------------------------- the webhook
\* sender = From.replace("whatsapp:", "")
SenderOf(From) == RemovePrefixToken(From)

\* (mutant) the message put in the link as it came
AuthQueryUnquoted(sender, m) == <<"u", "=">> \o sender \o <<"&", "m", "=">> \o m

\* the query string of the consent link: user_number={sender}&msg={quote(msg)}
\* ("u" is the key user_number, "m" the key msg)
AuthQuery(sender, m) == <<"u", "=">> \o sender \o <<"&", "m", "=">> \o Quote(m)

LinkBody(sender, m) == <<"Please authenticate:">> \o AuthQuery(sender, m)

\* (mutant) the early return after the consent link is missing
ForwardsAlways(verdict) == TRUE

\* "if not is_authenticated": the message goes on to the agent on a True verdict
Forwards(verdict) == verdict

\* webhook up to its first suspension: the gate, then either the consent link or
\* the start of the agent call
WebhookStart(t, From, Body, now) ==
    /\ Free(t)
    /\ nreq' = nreq + 1
    /\ now \in today..MaxDay
    /\ today' = now
    /\ \E fm \in MayFail, fc \in MayFail, fs \in MayFail :
       LET sender == SenderOf(From)
           thread == ThreadId(sender, now)
           ok == check_and_clean_files(sender)
           gate == Ev("gate", sender,
                      IF ok THEN <<>> ELSE Removals(fm, fc, fs),
                      IF ok THEN 1 ELSE 0)
           base == [kind |-> "webhook", pc |-> "done", from |-> From,
                    user |-> sender, msg |-> Body, thread |-> thread,
                    code |-> 0, raw |-> NoParam, day |-> now, seq |-> nreq + 1,
                    trace |-> <<gate>>, status |-> 0]
       IN  /\ GateEffect(sender, fm, fc, fs)
           /\ session' = SessionAfter(sender)
           /\ IF ~Forwards(ok)
              THEN \E sinkFails \in MayFail :
                     LET send == Ev("send", From, LinkBody(sender, Body), 0)
                     IN  IF sinkFails
                         THEN /\ task' = [task EXCEPT ![t] =
                                    [base EXCEPT !.trace = <<gate, send>>,
                                                 !.status = 500]]
                              /\ inbox' = inbox
                         ELSE /\ task' = [task EXCEPT ![t] =
                                    [base EXCEPT !.trace = <<gate, send>>,
                                                 !.status = 200]]
                              /\ inbox' = inbox \cup
                                    {[to |-> From, query |-> AuthQuery(sender, Body),
                                      sender |-> sender, body |-> Body]}
              ELSE /\ task' = [task EXCEPT ![t] =
                         [base EXCEPT !.pc = "await",
                                      !.trace = <<gate, Ev("agent", thread, Body, 0)>>]]
                   /\ inbox' = inbox
    /\ UNCHANGED <<activeFile, issued, ntool, toolRes, faults, probe>>

\* a webhook request whose form lacks From or Body: the Form(...) parameters are
\* required, the framework answers 422 and the handler body does not run
WebhookUnprocessable(t, From, Body) ==
    /\ Free(t)
    /\ nreq' = nreq + 1
    /\ ~From.present \/ ~Body.present
    /\ task' = [task EXCEPT ![t] =
           [IdleTask EXCEPT !.kind = "invalid", !.pc = "done",
                            !.seq = nreq + 1, !.status = 422]]
    /\ UNCHANGED <<credFile, sidecar, multiFiles, activeFile, inbox, issued,
                   today, ntool, toolRes, session, faults, probe>>

\* (mutant) the gate is asked again before the reply is relayed
RelayedStatusRechecked(t, sinkFails) ==
    IF sinkFails \/ ~check_and_clean_files(task[t].user) THEN 500 ELSE 200

\* send_whatsapp_message(From, response_msg); return Response(status_code=200):
\* nothing is tested between the agent call and the relay
RelayedStatus(t, sinkFails) == IF sinkFails THEN 500 ELSE 200

\* webhook after the agent call: relay the reply, answer 200
WebhookResume(t, reply) ==
    /\ task[t].kind = "webhook" /\ task[t].pc = "await"
    /\ reply \in AgentReplies(task[t].msg)
    /\ \E sinkFails \in MayFail :
         task' = [task EXCEPT ![t] =
             [@ EXCEPT !.pc = "done",
                       !.trace = Append(@, Ev("send", task[t].from, reply, 0)),
                       !.status = RelayedStatus(t, sinkFails)]]
    /\ UNCHANGED <<credFile, sidecar, multiFiles, activeFile, inbox, issued,
                   today, nreq, ntool, toolRes, session, faults, probe>>

\* ------------------------------------------------------ the /chat endpoint
\* str(uuid.uuid4()): a thread name no request gave, new with every call
FreshThread(n) == <<"uuid", ToString(n)>>

\* process_message: "if thread_id is None: thread_id = str(uuid.uuid4())"
ThreadUsed(thread_id, n) ==
    IF thread_id.present THEN thread_id.text ELSE FreshThread(n)

\* (mutant) the response names the thread the agent ran in
ThreadOfAgent(thread_id, used) == Param(used)

\* "thread_id": request.thread_id
ThreadEchoed(thread_id, used) == thread_id

\* JSONResponse: None is written null, a string between quotes
JsonText(p) == IF p.present THEN <<"\"">> \o p.text \o <<"\"">> ELSE <<"null">>

\* chat up to its suspension: the agent call starts at once, nothing is asked
\* of the gate and no file is touched
ChatStart(t, message, thread_id) ==
    /\ Free(t)
    /\ nreq' = nreq + 1
    /\ task' = [task EXCEPT ![t] =
           [IdleTask EXCEPT
               !.kind = "chat", !.pc = "await", !.msg = message,
               !.raw = thread_id, !.thread = ThreadUsed(thread_id, nreq + 1),
               !.seq = nreq + 1,
               !.trace = <<Ev("agent", ThreadUsed(thread_id, nreq + 1), message, 0)>>]]
    /\ UNCHANGED <<credFile, sidecar, multiFiles, activeFile, inbox, issued,
                   today, ntool, toolRes, session, faults, probe>>

\* chat after the agent call: the JSON response with the reply and the
\* request's thread_id
ChatResume(t, reply) ==
    /\ task[t].kind = "chat" /\ task[t].pc = "await"
    /\ reply \in AgentReplies(task[t].msg)
    /\ task' = [task EXCEPT ![t] =
           [@ EXCEPT !.pc = "done",
                     !.trace = Append(@, Ev("respond",
                                   JsonText(ThreadEchoed(task[t].raw, task[t].thread)),
                                   reply, 200)),
                     !.status = 200]]
    /\ UNCHANGED <<credFile, sidecar, multiFiles, activeFile, inbox, issued,
                   today, nreq, ntool, toolRes, session, faults, probe>>

\* --------------------------------------------- the consent detour
\* request.query_params: the pairs between "&", key and value split at the first
\* "=", "+" read as a space, then percent-decoded; the last pair of a key wins
QueryGet(q, key) ==
    LET pairs == SplitOn(q, "&")
        cut(p) == FirstIndex(p, "=")
        keyOf(p) == Unquote(PlusToSpace(
                        IF cut(p) = 0 THEN p ELSE SubSeq(p, 1, cut(p) - 1)))
        valOf(p) == IF cut(p) = 0 THEN <<>>
                    ELSE Unquote(PlusToSpace(SubSeq(p, cut(p) + 1, Len(p))))
        hits == {i \in 1..Len(pairs) : pairs[i] # <<>> /\ keyOf(pairs[i]) = key}
    IN  IF hits = {}
        THEN NoParam
        ELSE Param(valOf(pairs[CHOOSE i \in hits : \A j \in hits : j <= i]))

\* auth_redirect: encoded_state = quote(json.dumps({user_number, msg}))
EncodedState(u, m) == Quote(JsonDumps(u, m))

\* json.loads(urllib.parse.unquote(raw_state)) and the two .get calls
DecodeState(raw) == JsonLoadsState(Unquote(raw))

\* The sender opens a consent link the sink delivered: auth_redirect runs on the
\* link's query string, and the provider, after consent, issues the next code
\* bound to the state it was given. (History kept with each code: the link it
\* came from, the state of the callback that exchanged it, and how often its
\* message was dispatched and relayed.)
Redirect(link) ==
    /\ link \in inbox
    /\ Len(issued) < MaxCodes
    /\ LET u == QueryGet(link.query, <<"u">>)
           m == QueryGet(link.query, <<"m">>)
       IN  /\ u.present
           /\ issued' = Append(issued,
                  [state |-> EncodedState(u.text, IF m.present THEN m.text ELSE <<>>),
                   used |-> FALSE, link |-> link, usedWith |-> NoParam,
                   dispatched |-> 0, relayed |-> 0])
    /\ UNCHANGED <<credFile, sidecar, multiFiles, activeFile, task, inbox,
                   today, nreq, ntool, toolRes, session, faults, probe>>

\* (mutant) "and" in place of "or"
MissingParamsBoth(code, raw) == code = 0 /\ (~raw.present \/ raw.text = <<>>)

\* "if not code or not raw_state"
MissingParams(code, raw) == code = 0 \/ ~raw.present \/ raw.text = <<>>

\* (mutant) only the parse is inside the try, the .get calls come after it
StateRejectedAtParse(d) == d.kind = "invalid"

\* "except Exception" around json.loads and the two .get calls: a text that is
\* no JSON (JSONDecodeError) and a value without .get (AttributeError) both end
\* in the 400 page
StateRejected(d) == d.kind # "object"

\* (mutant) an exchange that a used code passes again
CodeValidReusable(code) == code \in 1..Len(issued)

\* flow.fetch_token(code): the provider accepts a code it issued, once
CodeValid(code) == code \in 1..Len(issued) /\ ~issued[code].used

\* (mutant) the exchange's exception is caught and the handler goes on
ExchangeRaisesNever(code, netFails) == FALSE

\* flow.fetch_token raises on a code the provider refuses and on a network
\* failure; the handler does not catch it
ExchangeRaises(code, netFails) == ~CodeValid(code) \/ netFails

\* what a failing write can leave behind: "open_fails" leaves the file as it was,
\* "write_fails" leaves it truncated
WriteOutcomes == IF faults THEN {"ok", "open_fails", "write_fails"} ELSE {"ok"}

\* add_active_user: the write is inside try/except, its failure is swallowed
RegisterAfter(f, u, outcome) ==
    CASE outcome = "ok" -> WrittenActiveFile(u)
      [] outcome = "open_fails" -> f
      [] OTHER -> [exists |-> TRUE, text |-> <<>>]

\* (mutant) a file that is there is left as it is
FileAfterKeepsOld(f, c, outcome) ==
    IF f.exists THEN f ELSE Holding(c)

\* save_credentials_json: open(path, 'w') and write
FileAfter(f, c, outcome) ==
    CASE outcome = "ok" -> Holding(c)
      [] outcome = "open_fails" -> f
      [] OTHER -> [exists |-> TRUE, cred |-> NoContent]

Page(text, status) == Ev("respond", <<>>, <<text>>, status)

\* the reply address of the callback: f"whatsapp:+{user_number.strip()}"
ReplyAddress(u) == <<"whatsapp:", "+">> \o Strip(u)

\* auth_callback up to its first suspension
CallbackStart(t, code, raw, now) ==
    /\ Free(t)
    /\ nreq' = nreq + 1
    /\ now \in today..MaxDay
    /\ today' = now
    /\ LET d == DecodeState(raw.text)
           base == [kind |-> "callback", pc |-> "done", from |-> <<>>,
                    user |-> d.user, msg |-> d.msg, thread |-> <<>>,
                    code |-> code, raw |-> raw, day |-> now, seq |-> nreq + 1,
                    trace |-> <<>>, status |-> 0]
           finish(tr, st) == task' = [task EXCEPT ![t] =
                                 [base EXCEPT !.trace = tr, !.status = st]]
           exch == Ev("exchange", <<>>, <<>>, code)
       IN
       IF MissingParams(code, raw)
       THEN /\ finish(<<Page("Missing code or state", 400)>>, 400)
            /\ session' = NoSession
            /\ UNCHANGED <<credFile, sidecar, activeFile, issued>>
       ELSE IF StateRejected(d)
       THEN /\ finish(<<Page("Invalid state format", 400)>>, 400)
            /\ session' = NoSession
            /\ UNCHANGED <<credFile, sidecar, activeFile, issued>>
       ELSE \E netFails \in MayFail :
         IF ExchangeRaises(code, netFails)
         THEN \* fetch_token raises: the request fails
              /\ finish(<<exch>>, 500)
              /\ session' = (IF d.hasUser THEN SessionAfter(d.user) ELSE NoSession)
              /\ UNCHANGED <<credFile, sidecar, activeFile, issued>>
         ELSE
         IF ~d.hasUser
         THEN \* add_active_user(None): None.strip() raises before any write
              /\ finish(<<exch>>, 500)
              /\ session' = NoSession
              /\ issued' = [issued EXCEPT ![code].used = TRUE,
                                          ![code].usedWith = raw]
              /\ UNCHANGED <<credFile, sidecar, activeFile>>
         ELSE \E ro \in WriteOutcomes, co \in WriteOutcomes, bo \in WriteOutcomes :
              LET creds == Cred(code, d.user)
                  thread == ThreadId(d.user, now)
                  setA == Ev("setActive", d.user, <<>>, code)
                  save == Ev("save", <<>>, <<>>, code)
                  back == Ev("backup", <<>>, <<>>, code)
                  invoked == co = "ok" /\ bo = "ok"
              IN  /\ session' = SessionAfter(d.user)
                  /\ activeFile' = RegisterAfter(activeFile, d.user, ro)
                  /\ credFile' = FileAfter(credFile, creds, co)
                  /\ sidecar' = IF co = "ok" THEN FileAfter(sidecar, creds, bo)
                                ELSE sidecar
                  /\ issued' = [issued EXCEPT
                          ![code].used = TRUE,
                          ![code].usedWith = raw,
                          ![code].dispatched = IF invoked THEN @ + 1 ELSE @]
                  /\ IF co # "ok" THEN finish(<<exch, setA, save>>, 500)
                     ELSE IF bo # "ok" THEN finish(<<exch, setA, save, back>>, 500)
                     ELSE task' = [task EXCEPT ![t] =
                            [base EXCEPT
                               !.pc = "await",
                               !.thread = thread,
                               !.trace = <<exch, setA, save, back,
                                           Ev("agent", thread, d.msg, 0)>>]]
    /\ UNCHANGED <<multiFiles, inbox, ntool, toolRes, faults, probe>>

\* auth_callback after the agent call: relay the reply, answer the success page
CallbackResume(t, reply) ==
    /\ task[t].kind = "callback" /\ task[t].pc = "await"
    /\ reply \in AgentReplies(task[t].msg)
    /\ \E sinkFails \in MayFail :
         LET send == Ev("send", ReplyAddress(task[t].user), reply, 0)
         IN  /\ task' = [task EXCEPT ![t] =
                 [@ EXCEPT !.pc = "done",
                           !.trace = IF sinkFails
                                     THEN Append(@, send)
                                     ELSE @ \o <<send, Page("You're authenticated", 200)>>,
                           !.status = IF sinkFails THEN 500 ELSE 200]]
             /\ issued' = [issued EXCEPT ![task[t].code].relayed = @ + 1]
             /\ session' = IF sinkFails THEN session
                           ELSE [who |-> Normalize(task[t].user), day |-> today]
    /\ UNCHANGED <<credFile, sidecar, multiFiles, activeFile, inbox,
                   today, nreq, ntool, toolRes, faults, probe>>

\* ------------------------------------------------- the tool subsystem
\* The drive tools call get_drive_service() with no argument while the agent
\* works on a message: user_number is the default "undefined".
ToolUser == <<"undefined">>

\* What a strategy loads: no credential, or one with the three properties the
\* code asks for (creds.valid, creds.expired, creds.refresh_token); a file that
\* is there but holds no JSON cannot be loaded.
NoCred == [loaded |-> FALSE, readable |-> TRUE, valid |-> FALSE,
           expired |-> FALSE, refresh_token |-> FALSE]
Unreadable == [NoCred EXCEPT !.readable = FALSE]
ValidCred == [NoCred EXCEPT !.loaded = TRUE, !.valid = TRUE, !.refresh_token = TRUE]
ExpiredCred(rt) == [NoCred EXCEPT !.loaded = TRUE, !.expired = TRUE,
                                  !.refresh_token = rt]
\* neither valid nor expired: no access token and no expiry
BlankCred(rt) == [NoCred EXCEPT !.loaded = TRUE, !.refresh_token = rt]

\* What a strategy meets: whether the secret store answers, the credential it
\* loads, whether creds.refresh succeeds, whether the client configuration of the
\* flow is there, and whether the interactive flow completes.
Meets(secrets, cred, refreshOk, keys, flowOk) ==
    [secrets |-> secrets, cred |-> cred, refreshOk |-> refreshOk, keys |-> keys,
     flowOk |-> flowOk]

Ended(outcome, refreshes, flows) ==
    [outcome |-> outcome, refreshes |-> refreshes, flows |-> flows]

\* (mutant) a refresh that raised is tried once more
RefreshIfNeededRetries(m) ==
    IF m.cred.loaded /\ m.cred.valid THEN Ended("valid", 0, 0)
    ELSE IF m.cred.loaded /\ m.cred.expired /\ m.cred.refresh_token
    THEN (IF m.refreshOk THEN Ended("refreshed", 1, 0)
          ELSE Ended("refresh_fails", 2, 0))
    ELSE IF ~m.keys THEN Ended("no_keys", 0, 0)
    ELSE IF m.flowOk THEN Ended("flow", 0, 1)
    ELSE Ended("flow_fails", 0, 1)

\* "if not creds or not creds.valid: if creds and creds.expired and
\* creds.refresh_token: creds.refresh(Request()) else: <the interactive flow>",
\* the part both strategies share:
\*   "valid"          nothing to do
\*   "refreshed"      one creds.refresh, which succeeded
\*   "refresh_fails"  one creds.refresh, which raised
\*   "no_keys"        the client configuration is missing (FileNotFoundError for
\*                    gcp-oauth.keys.json, KeyError for credentials_json)
\*   "flow"           run_local_server supplied a credential
\*   "flow_fails"     run_local_server raised
RefreshIfNeeded(m) ==
    IF m.cred.loaded /\ m.cred.valid THEN Ended("valid", 0, 0)
    ELSE IF m.cred.loaded /\ m.cred.expired /\ m.cred.refresh_token
    THEN (IF m.refreshOk THEN Ended("refreshed", 1, 0)
          ELSE Ended("refresh_fails", 1, 0))
    ELSE IF ~m.keys THEN Ended("no_keys", 0, 0)
    ELSE IF m.flowOk THEN Ended("flow", 0, 1)
    ELSE Ended("flow_fails", 0, 1)

\* get_production_drive_service: no secrets is a failure before anything is
\* loaded; the client configuration of its flow is SECRETS['credentials_json']
\* (keys tells whether it is there, a KeyError otherwise)
ProductionEnds(m) ==
    IF ~m.secrets THEN Ended("no_secrets", 0, 0)
    ELSE RefreshIfNeeded(m)

\* get_local_drive_service: json.load raises on a file without JSON
LocalEnds(m) ==
    IF ~m.cred.readable THEN Ended("load_fails", 0, 0)
    ELSE RefreshIfNeeded(m)

Supplies(e) == e.outcome \in {"valid", "refreshed", "flow"}

\* what get_production_drive_service meets in a request's agent run: no
\* secrets, a valid token, or an expired one whose refresh succeeds
ProductionOutcomes ==
    {Meets(FALSE, NoCred, TRUE, TRUE, TRUE),
     Meets(TRUE, ValidCred, TRUE, TRUE, TRUE),
     Meets(TRUE, ExpiredCred(TRUE), TRUE, TRUE, TRUE)}

\* what get_local_drive_service meets in a request's agent run, given
\* credentials.json: a valid credential, an expired one whose refresh succeeds
\* or raises; without a credential, an interactive flow that completes or not
LocalOutcomes(cf) ==
    IF cf.exists /\ cf.cred # NoContent
    THEN {Meets(TRUE, ValidCred, TRUE, TRUE, TRUE),
          Meets(TRUE, ExpiredCred(TRUE), TRUE, TRUE, TRUE),
          Meets(TRUE, ExpiredCred(TRUE), FALSE, TRUE, TRUE)}
    ELSE IF cf.exists
    THEN {Meets(TRUE, Unreadable, TRUE, TRUE, TRUE)}
    ELSE {Meets(TRUE, NoCred, TRUE, TRUE, TRUE),
          Meets(TRUE, NoCred, TRUE, TRUE, FALSE)}

\* everything the strategies can meet when called directly
\* (a flag that the code does not come to read is left at TRUE)
FlowNeeded == {ExpiredCred(FALSE), BlankCred(TRUE), BlankCred(FALSE)}

AllProduction ==
    {Meets(FALSE, NoCred, TRUE, TRUE, TRUE), Meets(TRUE, ValidCred, TRUE, TRUE, TRUE)}
    \cup {Meets(TRUE, ExpiredCred(TRUE), r, TRUE, TRUE) : r \in BOOLEAN}
    \cup {Meets(TRUE, c, TRUE, FALSE, TRUE) : c \in FlowNeeded \cup {NoCred}}
    \cup {Meets(TRUE, c, TRUE, TRUE, f) : c \in FlowNeeded \cup {NoCred}, f \in BOOLEAN}

AllLocal(cf) ==
    IF cf.exists /\ cf.cred # NoContent
    THEN {Meets(TRUE, ValidCred, TRUE, TRUE, TRUE)}
         \cup {Meets(TRUE, ExpiredCred(TRUE), r, TRUE, TRUE) : r \in BOOLEAN}
         \cup {Meets(TRUE, c, TRUE, FALSE, TRUE) : c \in FlowNeeded}
         \cup {Meets(TRUE, c, TRUE, TRUE, f) : c \in FlowNeeded, f \in BOOLEAN}
    ELSE IF cf.exists
    THEN {Meets(TRUE, Unreadable, TRUE, TRUE, TRUE)}
    ELSE {Meets(TRUE, NoCred, TRUE, FALSE, TRUE)}
         \cup {Meets(TRUE, NoCred, TRUE, TRUE, f) : f \in BOOLEAN}

SecretCred == Cred(0, <<"secret">>)
FlowCred == Cred(0, <<"flow">>)

\* one strategy's run: what it met and how it ended
Tried(strategy, m, e) == [strategy |-> strategy, met |-> m, ended |-> e]

\* how a get_drive_service call ended: the service of the strategy "via", or the
\* error raised; log holds the strategies run, in order. For the error, cause
\* lists the strategies whose failure is the exception named in "raise ...
\* from", and context those whose failure that exception was raised while
\* handling.
ToolResult(result, via, log) ==
    [result |-> result, via |-> via, log |-> log,
     tried |-> [i \in 1..Len(log) |-> log[i].strategy],
     cause |-> IF via = "none" /\ log # <<>>
               THEN <<log[Len(log)].strategy>> ELSE <<>>,
     context |-> IF via = "none" /\ log # <<>>
                 THEN [i \in 1..(Len(log) - 1) |-> log[i].strategy] ELSE <<>>]

\* the three writes closing both strategies: save_credentials_json,
\* save_user_credentials (add_active_user) and backup_credentials
SaveAll(c) ==
    /\ credFile' = Holding(c)
    /\ activeFile' = WrittenActiveFile(ToolUser)
    /\ sidecar' = Holding(c)

\* get_production_drive_service, when it returns a service: the credential is
\* saved whether or not it was renewed
get_production_drive_service(prod) ==
    LET e == ProductionEnds(prod)
    IN  /\ Supplies(e)
        /\ SaveAll(IF e.outcome = "flow" THEN FlowCred ELSE SecretCred)
        /\ toolRes' = ToolResult("service", "production",
                                 <<Tried("production", prod, e)>>)

\* get_local_drive_service, reached when the production strategy raised: the
\* credential is saved only when it was renewed
get_local_drive_service(prod, loc) ==
    LET e == LocalEnds(loc)
        log == <<Tried("production", prod, ProductionEnds(prod)),
                 Tried("local", loc, e)>>
    IN  CASE e.outcome = "valid" ->
              /\ UNCHANGED <<credFile, activeFile, sidecar>>
              /\ toolRes' = ToolResult("service", "local", log)
         [] e.outcome = "refreshed" ->
              /\ SaveAll(credFile.cred)
              /\ toolRes' = ToolResult("service", "local", log)
         [] e.outcome = "flow" ->
              /\ SaveAll(FlowCred)
              /\ toolRes' = ToolResult("service", "local", log)
         [] OTHER ->
              /\ UNCHANGED <<credFile, activeFile, sidecar>>
              /\ toolRes' = ToolResult("All authentication methods failed",
                                       "none", log)

\* get_drive_service: production first, local when production raised
get_drive_service(prod, loc) ==
    IF Supplies(ProductionEnds(prod))
    THEN get_production_drive_service(prod)
    ELSE get_local_drive_service(prod, loc)

\* a drive tool calls get_drive_service during the agent run of a request
GetDriveService(prod, loc) ==
    /\ \E t \in Tasks : task[t].pc = "await"
    /\ ntool < MaxToolCalls
    /\ ntool' = ntool + 1
    /\ get_drive_service(prod, loc)
    /\ UNCHANGED <<multiFiles, task, inbox, issued, today, nreq, session, faults, probe>>

\* ------------------------------------------ direct calls of the core
\* A direct call is one made on the function itself, outside a request, as the
\* unit tests make it. lastSet is the argument of the last add_active_user that
\* wrote the register.
NoGiven == [agent |-> FALSE, thread |-> NoParam, result |-> OtherResult]

NoProbe == [op |-> "none", arg |-> <<>>, outcome |-> "none", out |-> FALSE,
            text |-> <<>>, lastSet |-> NoParam,
            given |-> NoGiven, thread |-> <<>>, invoked |-> 0, uuids |-> 0]

\* str(uuid.uuid4()): an identifier no earlier call was given
Uuid(n) == <<"uuid", ToString(n)>>

\* process_message(message, thread_id) with the global agent set or None
ProcessMessage(agentSet, message, thread, r) ==
    /\ r \in AgentResults(message)
    /\ thread.present \/ ~agentSet \/ probe.uuids < MaxUuids
    /\ LET fresh == agentSet /\ ~thread.present
       IN  probe' = [NoProbe EXCEPT
               !.op = "process_message", !.arg = message,
               !.given = [agent |-> agentSet, thread |-> thread, result |-> r],
               !.text = process_message(agentSet, r),
               !.invoked = IF agentSet THEN 1 ELSE 0,
               !.thread = IF ~agentSet THEN <<>>
                          ELSE IF thread.present THEN thread.text
                          ELSE Uuid(probe.uuids + 1),
               !.uuids = IF fresh THEN probe.uuids + 1 ELSE probe.uuids,
               !.lastSet = probe.lastSet]
    /\ UNCHANGED <<credFile, sidecar, multiFiles, activeFile, task, inbox, issued,
                   today, nreq, ntool, toolRes, session, faults>>

\* add_active_user(x)
AddActiveUser(x, outcome) ==
    /\ outcome \in WriteOutcomes
    /\ activeFile' = RegisterAfter(activeFile, x, outcome)
    /\ probe' = [NoProbe EXCEPT !.op = "add_active_user", !.arg = x,
                                !.outcome = outcome,
                                !.lastSet = IF outcome = "ok" THEN Param(x)
                                            ELSE IF outcome = "open_fails"
                                                 THEN probe.lastSet
                                                 ELSE NoParam,
                                !.uuids = probe.uuids]
    /\ UNCHANGED <<credFile, sidecar, multiFiles, task, inbox, issued,
                   today, nreq, ntool, toolRes, session, faults>>

\* is_user_active(y): False when open or read raises
IsUserActive(y, readFails) ==
    /\ readFails \in MayFail
    /\ probe' = [NoProbe EXCEPT !.op = "is_user_active", !.arg = y,
                                !.outcome = IF readFails THEN "read_fails" ELSE "ok",
                                !.out = ~readFails /\ is_user_active(y),
                                !.lastSet = probe.lastSet,
                                !.uuids = probe.uuids]
    /\ UNCHANGED <<credFile, sidecar, multiFiles, activeFile, task, inbox, issued,
                   today, nreq, ntool, toolRes, session, faults>>

\* get_drive_service() called directly, with everything its strategies can meet
DriveService(prod, loc) ==
    /\ prod \in AllProduction
    /\ loc \in AllLocal(credFile)
    /\ get_drive_service(prod, loc)
    /\ probe' = [NoProbe EXCEPT !.op = "get_drive_service",
                                !.lastSet = IF activeFile' = activeFile
                                            THEN probe.lastSet ELSE Param(ToolUser),
                                !.uuids = probe.uuids]
    /\ UNCHANGED <<multiFiles, task, inbox, issued, today, nreq, ntool, session,
                   faults>>

\* -------------------------------------------------------------- inputs
\* identity strings given to the register directly
RegisterInputs ==
    {<<"+", "1">>, <<"1">>, <<" ", "1">>, <<"+", "2">>, <<"2">>, <<"undefined">>,
     <<"+", " ", "1">>, <<" ", "+", "1", " ">>, <<"1", "+", "2">>, <<"1", "2">>,
     <<"+">>, <<>>}

\* the register a direct call may find: none, or one a login of "1" wrote
StartRegisters == {NoActiveFile, [exists |-> TRUE, text |-> <<"1", "\n">>]}

\* what the messaging transport puts in From: "whatsapp:" and the number in
\* international form, with its leading "+"
Froms == {<<"whatsapp:", "+", "1">>, <<"whatsapp:", "+", "2">>}

Messages == {<<"h", "i">>, <<"a", " ", "+">>}

\* state values a browser may bring to the callback that no redirect built
ForgedStates ==
    {<<"b", "a", "%", "7", "z">>,
     Quote(<<"{", "}">>),
     EncodedState(<<"+", "1">>, <<"h", "i">>),
     <<"[", "]">>,
     <<"null">>}

StateInputs ==
    {NoParam} \cup
    {Param(x) : x \in ForgedStates \cup {issued[k].state : k \in 1..Len(issued)}}

\* files a restarted server may find on disk
OldCred == Cred(0, <<"old">>)

\* the disk at start: a fresh install; a restart after a session of sender 1; a
\* credential without a register; leftovers without a credential
StartDisks ==
    {[c |-> Absent, s |-> Absent, m |-> FALSE, a |-> NoActiveFile],
     [c |-> Holding(OldCred), s |-> Holding(OldCred), m |-> FALSE,
      a |-> [exists |-> TRUE, text |-> <<"1", "\n">>]],
     [c |-> Holding(OldCred), s |-> Absent, m |-> FALSE, a |-> NoActiveFile],
     [c |-> Absent, s |-> Holding(OldCred), m |-> TRUE, a |-> NoActiveFile]}

TypeOK ==
    /\ credFile.exists \in BOOLEAN
    /\ sidecar.exists \in BOOLEAN
    /\ multiFiles \in BOOLEAN
    /\ activeFile.exists \in BOOLEAN
    /\ today \in 1..MaxDay
    /\ nreq \in 0..MaxRequests
    /\ ntool \in 0..MaxToolCalls
    /\ Len(issued) <= MaxCodes
    /\ \A t \in Tasks : task[t].pc \in {"idle", "await", "done"}

InitWith(f) ==
    /\ \E d \in StartDisks :
          /\ credFile = d.c
          /\ sidecar = d.s
          /\ multiFiles = d.m
          /\ activeFile = d.a
    /\ task = [t \in Tasks |-> IdleTask]
    /\ inbox = {}
    /\ issued = <<>>
    /\ today = 1
    /\ nreq = 0
    /\ ntool = 0
    /\ toolRes = ToolResult("none", "none", <<>>)
    /\ session = NoSession
    /\ faults = f
    /\ probe = NoProbe

Init == InitWith(FALSE)

\* datetime.now() never runs backwards: a handler reads today or a later day
Webhook ==
    \E t \in Tasks, From \in Froms, Body \in Messages, now \in 1..MaxDay :
        WebhookStart(t, From, Body, now)

WebhookInvalid ==
    \E t \in Tasks :
        \E From \in {NoParam} \cup {Param(f) : f \in Froms},
           Body \in {NoParam} \cup {Param(b) : b \in Messages} :
            WebhookUnprocessable(t, From, Body)

WebhookDone ==
    \E t \in Tasks : \E reply \in AgentReplies(task[t].msg) : WebhookResume(t, reply)

OpenLink == \E link \in inbox : Redirect(link)

Callback ==
    \E t \in Tasks, code \in 0..MaxCodes, raw \in StateInputs, now \in 1..MaxDay :
        CallbackStart(t, code, raw, now)

CallbackDone ==
    \E t \in Tasks : \E reply \in AgentReplies(task[t].msg) : CallbackResume(t, reply)

\* thread_id values a /chat request may bring: none, or the thread of a sender
ChatThreads == {NoParam, Param(ThreadId(<<"+", "1">>, 1))}

Chat ==
    \E t \in Tasks, message \in Messages, thread_id \in ChatThreads :
        ChatStart(t, message, thread_id)

ChatDone ==
    \E t \in Tasks : \E reply \in AgentReplies(task[t].msg) : ChatResume(t, reply)

ToolCall ==
    \E prod \in ProductionOutcomes :
        \E loc \in LocalOutcomes(credFile) : GetDriveService(prod, loc)

Next ==
    \/ Webhook
    \/ WebhookInvalid
    \/ WebhookDone
    \/ OpenLink
    \/ Callback
    \/ CallbackDone
    \/ ToolCall

Spec == Init /\ [][Next]_vars

\* Runs in which file, network and sink operations may fail, followed for
\* MaxFaultRequests requests.
FaultRun == nreq < MaxFaultRequests

NextFaults ==
    \/ FaultRun /\ Webhook
    \/ FaultRun /\ WebhookInvalid
    \/ WebhookDone
    \/ OpenLink
    \/ FaultRun /\ Callback
    \/ CallbackDone
    \/ ToolCall

SpecFaults == InitWith(TRUE) /\ [][NextFaults]_vars

\* Runs with /chat requests beside the WhatsApp requests, followed for
\* MaxChatRequests requests. A /chat request reads and writes nothing the other
\* handlers use, it only takes a task of the event loop.
ChatRun == nreq < MaxChatRequests

NextChat ==
    \/ ChatRun /\ Webhook
    \/ ChatRun /\ WebhookInvalid
    \/ WebhookDone
    \/ OpenLink
    \/ ChatRun /\ Callback
    \/ CallbackDone
    \/ ToolCall
    \/ ChatRun /\ Chat
    \/ ChatDone

SpecChat == Init /\ [][NextChat]_vars

\* Direct calls of the register functions, with operations that may fail.
InitCalls ==
    /\ credFile \in {Absent, Holding(OldCred)}
    /\ sidecar = Absent
    /\ multiFiles = FALSE
    /\ activeFile \in StartRegisters
    /\ task = [t \in Tasks |-> IdleTask]
    /\ inbox = {}
    /\ issued = <<>>
    /\ today = 1
    /\ nreq = 0
    /\ ntool = 0
    /\ toolRes = ToolResult("none", "none", <<>>)
    /\ session = NoSession
    /\ faults = TRUE
    /\ probe = NoProbe

SetActive == \E x \in RegisterInputs, outcome \in WriteOutcomes : AddActiveUser(x, outcome)

IsActive == \E y \in RegisterInputs, readFails \in MayFail : IsUserActive(y, readFails)

AgentCall ==
    \E agentSet \in BOOLEAN, message \in Messages,
       thread \in {NoParam, Param(<<"+", "1", "_", "1">>)} :
        \E r \in AgentResults(message) : ProcessMessage(agentSet, message, thread, r)

DriveCall ==
    \E prod \in AllProduction : \E loc \in AllLocal(credFile) : DriveService(prod, loc)

NextCalls ==
    \/ SetActive
    \/ IsActive
    \/ AgentCall

SpecCalls == InitCalls /\ [][NextCalls]_vars

\* Direct calls of get_drive_service, one after another.
SpecDrive == InitCalls /\ [][DriveCall]_vars

\* ------------------------------------------------------------ vocabulary
\* spellings of sender identities: a number with or without its "+", or as a
\* query string shows it, and the name the tool subsystem registers
Identities ==
    {<<"+", "1">>, <<"1">>, <<" ", "1">>, <<"+", "2">>, <<"2">>, <<" ", "2">>,
     <<"undefined">>}

\* the request that starts in this step runs in task t
Starts(t) == Free(t) /\ nreq' = nreq + 1

\* the request of task t returns in this step
Returns(t) == task[t].pc = "await" /\ task'[t].pc = "done"

\* no other request started since the request of task t did
Alone(t) == nreq = task[t].seq

HasEvent(t, ev) == \E i \in 1..Len(task[t].trace) : task[t].trace[i].ev = ev

EventAt(t, ev) == CHOOSE i \in 1..Len(task[t].trace) : task[t].trace[i].ev = ev

\* ------------------------------------------------------------------ C1
\* C1: the webhook's gate verdict is Authenticated exactly when, in the state the
\* call finds, credentials.json exists and the register's one stored line is the
\* sender's normalized number; with no artifact, another identity stored, or no
\* readable register it is Unauthenticated, whatever earlier calls returned.
C1_VerdictFromStoredState ==
    [][\A t \in Tasks :
         (Starts(t) /\ task'[t].kind = "webhook") =>
            LET u == task'[t].user
                stored == credFile.exists /\ activeFile.exists
                          /\ activeFile.text = RemoveChar(Strip(u), "+") \o <<"\n">>
            IN  /\ task'[t].trace[1].ev = "gate"
                /\ (task'[t].trace[1].n = 1) <=> stored
                /\ (task'[t].pc = "await") <=> stored
      ]_vars

\* a webhook delivery judged Authenticated, its message on its way to the agent
C1_Witness ==
    \E t \in Tasks :
        /\ task[t].kind = "webhook" /\ task[t].pc = "await"
        /\ task[t].trace[1].n = 1
        /\ task[t].seq > 1

\* ------------------------------------------------------------------ C2
\* the identity a step writes to the register: the callback's user_number, or
\* the tool subsystem's
WrittenBy(t) == IF ntool' # ntool THEN ToolUser ELSE task'[t].user

\* C2: the register holds at most one identity in every state; and a step that
\* writes identity B to it (setActive(B)) leaves B active and every identity A
\* whose normalized form differs from B's inactive, whatever was stored before.
C2_SingleSlot ==
    /\ [](Cardinality(ActiveUsers(activeFile)) <= 1)
    /\ [][activeFile' # activeFile =>
            \E t \in Tasks :
               /\ ntool' = ntool => Starts(t)
               /\ \A A \in Identities :
                     IsUserActiveIn(activeFile', A)
                        <=> RemoveChar(Strip(A), "+")
                               = RemoveChar(Strip(WrittenBy(t)), "+")
        ]_vars

\* setActive(A) then setActive(B) happened, for numbers that differ: two codes
\* were exchanged by callbacks of different senders
C2_Witness ==
    /\ Len(issued) = 2
    /\ issued[1].used /\ issued[2].used
    /\ DecodeState(issued[1].usedWith.text).hasUser
    /\ DecodeState(issued[2].usedWith.text).hasUser
    /\ Normalize(DecodeState(issued[1].usedWith.text).user)
          # Normalize(DecodeState(issued[2].usedWith.text).user)
    /\ ActiveUsers(activeFile) # {}

\* ------------------------------------------------------------------ C3
\* the normalized identities the gate would judge Authenticated right now
Authenticated(cf, af) ==
    {Normalize(A) : A \in {B \in Identities : GateVerdict(cf, af, B)}}

C4_StaysAuthenticated ==
    [][\A t \in Tasks :
         (/\ Starts(t) /\ task'[t].kind = "webhook"
          /\ session.who # <<>>
          /\ session.who = Normalize(task'[t].user)
          /\ session.day = task'[t].day)
            => /\ task'[t].trace[1].n = 1
               /\ task'[t].pc = "await"
               /\ inbox' = inbox
      ]_vars

\* ------------------------------------------------------------------ C5
\* C5 (as claimed): a callback that returned the success page has made, in
\* this order, one exchange, the register and credential writes, one agent call
\* with the state's message and the thread key of (s, today), and one sink call
\* relaying the reply to s; and s is then the active identity (no other request
\* having started since).
C5_CallbackSequence ==
    \A t \in Tasks :
        (task[t].kind = "callback" /\ task[t].status = 200 /\ Alone(t)) =>
            LET tr == task[t].trace
                s == task[t].user
            IN  /\ Len(tr) = 7
                /\ tr[1] = Ev("exchange", <<>>, <<>>, task[t].code)
                /\ {tr[2].ev, tr[3].ev, tr[4].ev} = {"setActive", "save", "backup"}
                /\ tr[5] = Ev("agent", s \o <<"_", ToString(task[t].day)>>,
                              task[t].msg, 0)
                /\ tr[6].ev = "send"
                /\ tr[6].who = <<"whatsapp:", "+">> \o Strip(s)
                /\ tr[6].text \in AgentReplies(task[t].msg)
                /\ tr[7].n = 200
                /\ is_user_active(s)

\* ------------------------------------------------------------------ C6
\* the files, the provider's codes and the delivered links stay as they were
NothingDone ==
    UNCHANGED <<credFile, sidecar, multiFiles, activeFile, issued, inbox>>

\* "bad%7z", a state that is no percent-encoded JSON
Undecodable == {<<"b", "a", "%", "7", "z">>}

\* C6: a callback without code or without state is answered 400 "Missing code or
\* state", one whose state does not decode 400 "Invalid state format"; in both
\* cases that page is all the request does: no exchange, no write to the
\* credential, the sidecar or the register, no agent call, nothing sent.
C6_MalformedCallbackRejected ==
    [][\A t \in Tasks :
         (Starts(t) /\ task'[t].kind = "callback") =>
            LET c == task'[t].code
                r == task'[t].raw
            IN  /\ (c = 0 \/ ~r.present) =>
                      /\ task'[t].trace = <<Page("Missing code or state", 400)>>
                      /\ task'[t].status = 400 /\ task'[t].pc = "done"
                      /\ NothingDone
                /\ (c # 0 /\ r.present /\ r.text \in Undecodable) =>
                      /\ task'[t].trace = <<Page("Invalid state format", 400)>>
                      /\ task'[t].status = 400 /\ task'[t].pc = "done"
                      /\ NothingDone
      ]_vars

\* a callback with a code issued and unused, and a state that does not decode,
\* was answered "Invalid state format" while a credential was on disk
C6_Witness ==
    \E t \in Tasks :
        /\ task[t].kind = "callback" /\ task[t].status = 400
        /\ task[t].code \in 1..Len(issued)
        /\ ~issued[task[t].code].used
        /\ task[t].raw.present
        /\ task[t].trace = <<Page("Invalid state format", 400)>>

\* ------------------------------------------------------------------ C7
\* the callback of task t carries the code the provider issued for a consent
\* link together with the state issued with it, unchanged
ThroughLink(t) ==
    /\ task[t].kind = "callback"
    /\ task[t].code \in 1..Len(issued)
    /\ task[t].raw = Param(issued[task[t].code].state)
    /\ HasEvent(t, "agent")

\* C7 (as claimed): a callback that brings back, unchanged, the state of a consent
\* link resumes with exactly the sender and message of the webhook delivery the
\* link was sent for: the agent gets that message, the reply goes to that sender.
C7_PendingRequestRoundTrip ==
    \A t \in Tasks :
        ThroughLink(t) =>
            LET link == issued[task[t].code].link
            IN  /\ task[t].user = link.sender
                /\ task[t].msg = link.body
                /\ task[t].trace[EventAt(t, "agent")].text = link.body
                /\ HasEvent(t, "send") =>
                      task[t].trace[EventAt(t, "send")].who = link.to

\* ------------------------------------------------------------------ C8
\* the delivery of task t was judged Unauthenticated
Rejected(t) ==
    /\ task[t].kind = "webhook"
    /\ task[t].trace[1].ev = "gate" /\ task[t].trace[1].n = 0

\* C8: a delivery from s with text m that the gate rejects makes one sink call and
\* no more, addressed to the address the message came from ("whatsapp:" and s),
\* whose body is the consent URL with user_number=s and msg= the percent-encoded
\* m; the agent is not invoked in that delivery.
C8_RejectedGetsOneLink ==
    \A t \in Tasks :
        Rejected(t) =>
            LET s == task[t].user
                m == task[t].msg
            IN  /\ task[t].pc = "done"
                /\ Len(task[t].trace) = 2
                /\ task[t].trace[2] =
                      Ev("send", <<"whatsapp:">> \o s,
                         <<"Please authenticate:", "u", "=">> \o s
                             \o <<"&", "m", "=">> \o Quote(m), 0)
                /\ Unquote(Quote(m)) = m
                /\ ~HasEvent(t, "agent")

\* a rejected delivery whose text needs encoding: "a +" went out as a%20%2B
C8_Witness ==
    \E t \in Tasks :
        /\ Rejected(t) /\ task[t].status = 200
        /\ task[t].msg = <<"a", " ", "+">>
        /\ Quote(task[t].msg) = <<"a", "%", "2", "0", "%", "2", "B">>
        /\ \E l \in inbox : l.to = task[t].from /\ l.body = task[t].msg

\* ------------------------------------------------------------------ C9
\* the identity of a sender spelling (the register's normalization)
SameIdentity(a, b) == Normalize(a) = Normalize(b)

\* C9: the delivery that the gate rejects never reaches the agent itself; an agent
\* call made for it later is made by a callback, after that callback's code
\* exchange succeeded, with the user and message its state decodes to; and when
\* the callback brings the state issued for the delivery's link, that is the
\* delivery's sender identity and message. Without such a callback the message
\* of a rejected delivery is dispatched nowhere.
C9_AgentOnlyAfterConsent ==
    /\ \A t \in Tasks : Rejected(t) => ~HasEvent(t, "agent")
    /\ \A t \in Tasks :
          (task[t].kind = "callback" /\ HasEvent(t, "agent")) =>
             LET k == task[t].code
                 d == DecodeState(task[t].raw.text)
             IN  /\ k \in 1..Len(issued)
                 /\ task[t].trace[1] = Ev("exchange", <<>>, <<>>, k)
                 /\ EventAt(t, "agent") > 1
                 /\ issued[k].used /\ issued[k].usedWith = task[t].raw
                 /\ d.kind = "object" /\ d.hasUser
                 /\ d.user = task[t].user /\ d.msg = task[t].msg
                 /\ task[t].trace[EventAt(t, "agent")].text = d.msg
                 /\ task[t].raw.text = issued[k].state =>
                       /\ SameIdentity(d.user, issued[k].link.sender)
                       /\ d.msg = issued[k].link.body
    /\ \A k \in 1..Len(issued) :
          /\ ~issued[k].used => issued[k].dispatched = 0
          /\ issued[k].link \in inbox
    /\ \A l \in inbox : l.query = <<"u", "=">> \o l.sender
                                     \o <<"&", "m", "=">> \o Quote(l.body)

\* the message "a +" of a rejected delivery reached the agent through the callback
\* that brought back its link's state, while another link was never followed up
C9_Witness ==
    \E k \in 1..Len(issued) :
        /\ issued[k].dispatched = 1
        /\ issued[k].usedWith = Param(issued[k].state)
        /\ issued[k].link.body = <<"a", " ", "+">>
        /\ \E t \in Tasks : task[t].kind = "callback" /\ task[t].code = k
                              /\ task[t].msg = <<"a", " ", "+">>
                              /\ HasEvent(t, "agent")

\* ------------------------------------------------------------------ C10
RECURSIVE SumOver(_, _)
SumOver(f, S) ==
    IF S = {} THEN 0
    ELSE LET k == CHOOSE x \in S : TRUE IN f[k] + SumOver(f, S \ {k})

\* the codes the provider issued for consent link l
CodesOf(l) == {k \in 1..Len(issued) : issued[k].link = l}

\* C10 (as claimed): for one consent link issued, its message is dispatched to the
\* agent at most once and the reply relayed at most once.
C10_OncePerLink ==
    \A l \in inbox :
        /\ SumOver([k \in 1..Len(issued) |-> issued[k].dispatched], CodesOf(l)) <= 1
        /\ SumOver([k \in 1..Len(issued) |-> issued[k].relayed], CodesOf(l)) <= 1

\* C10 (amended): per authorization code the message is dispatched at most once
\* and relayed at most once, however often the callback is delivered with that
\* code; the callback that answered the success page dispatched and relayed
\* exactly once. (A link opened again yields another code.)
C10_OncePerCode ==
    /\ \A k \in 1..Len(issued) :
          /\ issued[k].dispatched <= 1
          /\ issued[k].relayed <= issued[k].dispatched
    /\ \A t \in Tasks :
          (task[t].kind = "callback" /\ task[t].pc = "done"
              /\ task[t].status = 200) =>
             /\ issued[task[t].code].dispatched = 1
             /\ issued[task[t].code].relayed = 1

\* the callback was delivered again with the code and state already used: the
\* second delivery failed at the exchange, the message stayed dispatched once
C10_Witness ==
    \E t \in Tasks :
        /\ task[t].kind = "callback" /\ task[t].pc = "done"
        /\ task[t].status = 500 /\ task[t].trace = <<Ev("exchange", <<>>, <<>>, task[t].code)>>
        /\ task[t].code \in 1..Len(issued)
        /\ issued[task[t].code].usedWith = task[t].raw
        /\ issued[task[t].code].dispatched = 1
        /\ issued[task[t].code].relayed = 1

\* ------------------------------------------------------------------ C11
\* C11 (as claimed): a webhook delivery with From and Body is answered 200
\* whatever happened inside (verdict, agent failure, sink failure); a request
\* lacking From or Body is answered with a 4xx status.
C11_AlwaysAcknowledged ==
    \A t \in Tasks :
        /\ (task[t].kind = "webhook" /\ task[t].pc = "done") => task[t].status = 200
        /\ task[t].kind = "invalid" => task[t].status \in 400..499

\* ------------------------------------------------------------------ C12
\* the request starting in task t in this step is a delivery the gate rejects
RejectedNow(t) ==
    /\ Starts(t) /\ task'[t].kind = "webhook"
    /\ task'[t].trace[1].ev = "gate" /\ task'[t].trace[1].n = 0

\* the os.remove calls of the cleanup run in this step by task t
RemovalLog(t) == task'[t].trace[1].text

Failed(log) == {log[i] : i \in 1..Len(log)} \cap {"fail:multi", "fail:cred", "fail:side"}

\* C12: when the gate rejects and none of its deletions fails, right after the call
\* there is no credentials.json, no *.multi.json leftover and no sidecar copy,
\* also when credentials.json was already absent before the call.
C12_CleanupLeavesNothing ==
    [][\A t \in Tasks :
         (RejectedNow(t) /\ Failed(RemovalLog(t)) = {}) =>
             /\ ~credFile'.exists
             /\ ~sidecar'.exists
             /\ ~multiFiles'
      ]_vars

\* a rejected delivery found no credentials.json but a leftover and a sidecar,
\* and removed both
C12_Witness ==
    \E t \in Tasks :
        /\ Rejected(t) /\ Alone(t)
        /\ task[t].trace[1].text = <<"rm:multi", "rm:side">>
        /\ ~credFile.exists /\ ~sidecar.exists /\ ~multiFiles

\* ------------------------------------------------------------------ C13
\* C13: in a cleanup every artifact that exists gets its own os.remove, whether or
\* not an earlier one failed; an artifact whose removal failed stays, every other
\* is gone; the verdict stays Unauthenticated and the handler goes on to send
\* the consent link (nothing was raised).
C13_CleanupBestEffort ==
    [][\A t \in Tasks :
         RejectedNow(t) =>
            LET log == RemovalLog(t)
                has(x) == \E i \in 1..Len(log) : log[i] = x
            IN  /\ multiFiles => (has("rm:multi") \/ has("fail:multi"))
                /\ credFile.exists => (has("rm:cred") \/ has("fail:cred"))
                /\ sidecar.exists => (has("rm:side") \/ has("fail:side"))
                /\ multiFiles' <=> has("fail:multi")
                /\ credFile' = IF has("fail:cred") THEN credFile ELSE Absent
                /\ sidecar' = IF has("fail:side") THEN sidecar ELSE Absent
                /\ Len(task'[t].trace) = 2
                /\ task'[t].trace[2].ev = "send"
                /\ task'[t].pc = "done"
      ]_vars

\* removing credentials.json failed, and the sidecar was removed all the same
C13_Witness ==
    \E t \in Tasks :
        /\ Rejected(t) /\ Alone(t)
        /\ task[t].trace[1].text = <<"fail:cred", "rm:side">>
        /\ credFile.exists /\ ~sidecar.exists
        /\ HasEvent(t, "send")

\* ------------------------------------------------------------------ C14
\* C14: a cleanup none of whose deletions fails leaves no credentials.json and no
\* sidecar; a cleanup that finds neither (the second of two in a row) calls
\* os.remove for neither, changes no file and lets the handler go on.
C14_DeletionIdempotent ==
    [][\A t \in Tasks :
         RejectedNow(t) =>
            /\ Failed(RemovalLog(t)) = {} => (credFile' = Absent /\ sidecar' = Absent)
            /\ (credFile = Absent /\ sidecar = Absent /\ ~multiFiles) =>
                  /\ RemovalLog(t) = <<>>
                  /\ UNCHANGED <<credFile, sidecar, multiFiles, activeFile>>
                  /\ task'[t].trace[2].ev = "send"
      ]_vars

\* two deliveries in a row were rejected on a disk that began with a credential
\* and its sidecar: the first cleanup removed them, the second found nothing
C14_Witness ==
    \E t \in Tasks :
        /\ Rejected(t) /\ task[t].seq = 2 /\ Alone(t)
        /\ task[t].trace[1].text = <<>>
        /\ Cardinality(inbox) = 2
        /\ activeFile = [exists |-> TRUE, text |-> <<"1", "\n">>]
        /\ credFile = Absent /\ sidecar = Absent

\* ------------------------------------------------------------------ C15
\* normalization as the claim words it: surrounding whitespace stripped, then a
\* leading "+"
LeadingNormalize(x) ==
    LET y == Strip(x)
    IN  IF y # <<>> /\ Head(y) = "+" THEN Tail(y) ELSE y

\* C15 (as claimed): after setActive(x), isActive(y) is true exactly when x and y
\* are equal once surrounding whitespace and a leading "+" are stripped; and
\* setActive of an identity that is already active leaves the register holding
\* that one normalized identity.
C15_NormalizedIdentity ==
    /\ [](( /\ probe.op = "is_user_active" /\ probe.outcome = "ok"
            /\ probe.lastSet.present )
          => (probe.out <=> LeadingNormalize(probe.lastSet.text)
                              = LeadingNormalize(probe.arg)))
    /\ [][( /\ probe'.op = "add_active_user" /\ probe'.outcome = "ok"
            /\ probe' # probe
            /\ is_user_active(probe'.arg) )
          => ActiveUsers(activeFile') = {LeadingNormalize(probe'.arg)}
       ]_vars

\* ------------------------------------------------------------------ C16
\* C16 (as claimed): isActive is false when the register cannot be read or was
\* never written, and a setActive whose write fails leaves the register with
\* the content it had.
C16_RegisterFailuresContained ==
    /\ [](( /\ probe.op = "is_user_active"
            /\ (probe.outcome = "read_fails" \/ ~activeFile.exists) )
          => ~probe.out)
    /\ [][( /\ probe'.op = "add_active_user"
            /\ probe'.outcome # "ok"
            /\ probe' # probe )
          => activeFile' = activeFile
       ]_vars

\* ------------------------------------------------------------------ C17
\* C17 (as claimed): the register changes only in the step of a callback whose
\* code exchange succeeded, and then to that callback's sender; the gate, the
\* redirect, a failed callback and get_drive_service leave it as it is.
C17_RegisterWrittenByCallbackOnly ==
    [][activeFile' # activeFile =>
          \E t \in Tasks :
             /\ Starts(t) /\ task'[t].kind = "callback"
             /\ \E i \in 1..Len(task'[t].trace) : task'[t].trace[i].ev = "setActive"
             /\ ActiveUsers(activeFile') = {Normalize(task'[t].user)}
      ]_vars

\* ------------------------------------------------------------------ C18
\* C18 (as claimed): an agent call made for a sender on a day carries the thread
\* key of (that sender, that day), both when the webhook forwards the message
\* and when the callback resumes the message of the link the webhook sent.
C18_OneThreadPerSenderAndDay ==
    \A t \in Tasks :
        HasEvent(t, "agent") =>
            LET key == task[t].trace[EventAt(t, "agent")].who
            IN  /\ task[t].kind = "webhook" =>
                      key = SenderOf(task[t].from) \o <<"_", ToString(task[t].day)>>
                /\ ThroughLink(t) =>
                      key = issued[task[t].code].link.sender
                               \o <<"_", ToString(task[t].day)>>

\* ------------------------------------------------------------------ C19
\* the callback starting in task t in this step failed at the code exchange: the
\* exchange is the last thing it did and the code was not consumed by it
ExchangeFailedNow(t) ==
    /\ Starts(t) /\ task'[t].kind = "callback"
    /\ task'[t].trace # <<>> /\ task'[t].trace[1].ev = "exchange"
    /\ \/ task'[t].code \notin 1..Len(issued)
       \/ issued[task'[t].code].used
       \/ ~issued'[task'[t].code].used

Count(t, ev) == Cardinality({i \in 1..Len(task[t].trace) : task[t].trace[i].ev = ev})

\* C19: a callback whose code exchange fails ends there with an error, after that
\* one attempt: credentials.json, the sidecar and the register are as before,
\* there is no agent call and no send; and no request makes more than one
\* exchange, one agent call or one send.
C19_ExchangeFailureChangesNothing ==
    /\ [][\A t \in Tasks :
            ExchangeFailedNow(t) =>
               /\ task'[t].trace = <<Ev("exchange", <<>>, <<>>, task'[t].code)>>
               /\ task'[t].status = 500 /\ task'[t].pc = "done"
               /\ UNCHANGED <<credFile, sidecar, multiFiles, activeFile,
                              issued, inbox>>
       ]_vars
    /\ [](\A t \in Tasks :
            /\ Count(t, "exchange") <= 1
            /\ Count(t, "agent") <= 1
            /\ Count(t, "send") <= 1)

\* the exchange of an issued, unused code failed on the network while a
\* credential of an earlier login was on disk: it is still there
C19_Witness ==
    \E t \in Tasks :
        /\ task[t].kind = "callback" /\ task[t].status = 500 /\ Alone(t)
        /\ task[t].trace = <<Ev("exchange", <<>>, <<>>, task[t].code)>>
        /\ task[t].code \in 1..Len(issued)
        /\ ~issued[task[t].code].used
        /\ task[t].raw = Param(issued[task[t].code].state)
        /\ activeFile = [exists |-> TRUE, text |-> <<"1", "\n">>]

\* ------------------------------------------------------------------ C20
\* C20: process_message always returns a text and never raises: without an
\* initialized agent the text is "Agent is not initialized." and nothing is
\* invoked; with one, the agent is invoked once, with the given thread key or
\* with a freshly generated one when none is given, and the text is
\* "Error: <cause>" when the invocation fails, the content of the last AI
\* message when the result has messages, "Couldn't generate a proper
\* response." when none of them is an AI message, and the string form of the
\* result when it has no messages.
AIPositions(ms) == {i \in 1..Len(ms) : ms[i].ai}

C20_ProcessMessageTotal ==
    /\ [](probe.op = "process_message" =>
            LET g == probe.given
                r == g.result
                ais == AIPositions(r.messages)
            IN  /\ ~g.agent => /\ probe.text = <<"Agent is not initialized.">>
                               /\ probe.invoked = 0
                /\ g.agent =>
                     /\ probe.invoked = 1
                     /\ g.thread.present => probe.thread = g.thread.text
                     /\ ~g.thread.present => probe.thread = Uuid(probe.uuids)
                     /\ r.shape = "raises" => probe.text = <<"Error:">> \o r.cause
                     /\ r.shape = "dict" /\ ais # {} =>
                            \E i \in ais : /\ \A j \in ais : j <= i
                                           /\ probe.text = r.messages[i].content
                     /\ r.shape = "dict" /\ ais = {} =>
                            probe.text = <<"Couldn't generate a proper response.">>
                     /\ r.shape = "other" => probe.text = <<"str(result)">>)
    /\ [][probe'.op = "process_message" /\ probe'.given.agent
             /\ ~probe'.given.thread.present
           => /\ probe'.uuids = probe.uuids + 1
              /\ probe'.thread # probe.thread]_vars

\* a second call without a thread key, answered by a result whose last AI
\* message is neither its first AI message nor its last message
C20_Witness ==
    /\ probe.op = "process_message"
    /\ probe.given.agent
    /\ ~probe.given.thread.present
    /\ probe.uuids = 2
    /\ probe.given.result.shape = "dict"
    /\ Len(probe.given.result.messages) = 3
    /\ probe.text = probe.given.result.messages[2].content

\* ------------------------------------------------------------------ C21
\* the callback of task t performs its writes in this step and goes on to the
\* agent call
WritesNow(t) ==
    Starts(t) /\ task'[t].kind = "callback" /\ task'[t].pc = "await"

\* C21 (as stated): when a callback returns its success page, credentials.json
\* and the sidecar both exist and hold the credential of this callback's code
\* exchange.
C21_BothHeldAtReturn ==
    [][\A t \in Tasks :
         (Returns(t) /\ task[t].kind = "callback" /\ task'[t].status = 200) =>
            /\ credFile' = Holding(Cred(task[t].code, task[t].user))
            /\ sidecar' = credFile'
      ]_vars

\* C21 (amended): the step in which a callback performs its writes leaves
\* credentials.json and the sidecar both existing and holding the same
\* credential, the one this callback's code exchange produced, whatever either
\* held before; they still hold it when the callback returns if no other
\* request and no tool call ran during its agent call.
C21_SaveWritesBoth ==
    [][\A t \in Tasks :
         /\ WritesNow(t) =>
               /\ credFile' = Holding(Cred(task'[t].code, task'[t].user))
               /\ sidecar' = credFile'
         /\ (Returns(t) /\ task[t].kind = "callback" /\ Alone(t) /\ ntool = 0) =>
               /\ credFile' = Holding(Cred(task[t].code, task[t].user))
               /\ sidecar' = credFile'
      ]_vars

\* a second callback has written over the credential of an earlier one
C21_Witness ==
    \E t \in Tasks :
        /\ task[t].kind = "callback" /\ task[t].pc = "await" /\ Alone(t)
        /\ \E k \in 1..Len(issued) : k # task[t].code /\ issued[k].used
                                      /\ issued[k].dispatched = 1
        /\ credFile = Holding(Cred(task[t].code, task[t].user))
        /\ sidecar = credFile

\* ------------------------------------------------------------------ C22
\* the callback of task t returned the success page after handing the message
\* of its state to the agent and relaying one reply
Succeeded(t) ==
    /\ task[t].kind = "callback" /\ task[t].pc = "done" /\ task[t].status = 200
    /\ Count(t, "agent") = 1 /\ Count(t, "send") = 1
    /\ task[t].trace[EventAt(t, "agent")].text = task[t].msg
    /\ task[t].trace[Len(task[t].trace)] = Page("You're authenticated", 200)

\* two callbacks of different senders were in flight together, b having started
\* (and so written the register) after a, and both have returned
BothReturned(a, b) ==
    /\ task[a].kind = "callback" /\ task[b].kind = "callback"
    /\ task[a].pc = "done" /\ task[b].pc = "done"
    /\ HasEvent(a, "setActive") /\ HasEvent(b, "setActive")
    /\ ~SameIdentity(task[a].user, task[b].user)
    /\ task[b].seq = task[a].seq + 1
    /\ nreq = task[b].seq

\* C22: when concurrent callbacks of two different senders, both with a
\* successful code exchange, have both returned, the register names exactly the
\* sender whose register write came last, and both callbacks have returned the
\* success page after dispatching their own message.
C22_LastWriterWins ==
    \A a \in Tasks, b \in Tasks :
        BothReturned(a, b) =>
            /\ ActiveUsers(activeFile) = {Normalize(task[b].user)}
            /\ is_user_active(task[b].user) /\ ~is_user_active(task[a].user)
            /\ Succeeded(a) /\ Succeeded(b)

\* ------------------------------------------------------------------ C23
\* C23: get_drive_service tries production, then local; the first strategy that
\* succeeds supplies the service and no later one is tried; when both fail one
\* error "All authentication methods failed" is raised whose cause names the
\* failures of all strategies tried.
C23_FallbackChain ==
    toolRes.result # "none" =>
        /\ toolRes.tried \in {<<"production">>, <<"production", "local">>}
        /\ toolRes.result = "service" =>
              /\ toolRes.via = toolRes.tried[Len(toolRes.tried)]
        /\ toolRes.result # "service" =>
              /\ toolRes.result = "All authentication methods failed"
              /\ toolRes.tried = <<"production", "local">>
              /\ {toolRes.cause[i] : i \in 1..Len(toolRes.cause)}
                    = {toolRes.tried[i] : i \in 1..Len(toolRes.tried)}

\* ------------------------------------------------------------------ C24
\* the runs of strategies in the last get_drive_service call
Runs == {toolRes.log[i] : i \in 1..Len(toolRes.log)}

\* the strategy run L raised, and its caller got the exception: after
\* production get_drive_service went on to local, after local it raised
Propagated(L) ==
    /\ ~Supplies(L.ended)
    /\ toolRes.via # L.strategy
    /\ L.strategy = "local" => toolRes.result = "All authentication methods failed"
    /\ L.strategy = "production" => toolRes.tried = <<"production", "local">>

\* what holds of a run that loaded a valid credential, and of one that loaded an
\* expired credential with a refresh token
ValidOrRefreshed(L) ==
    /\ L.met.cred.valid => L.ended.refreshes = 0 /\ L.ended.flows = 0
    /\ (L.met.cred.expired /\ L.met.cred.refresh_token) =>
          /\ L.ended.refreshes = 1 /\ L.ended.flows = 0
          /\ ~L.met.refreshOk => Propagated(L)

Senders == {SenderOf(f) : f \in Froms}

\* the sender named by the state of the callback whose exchange produced the
\* credential; the credential a restart finds is that of sender 1's session
OwnerOf(c) == IF c = OldCred THEN <<"1">> ELSE c.by

\* C25: whenever the gate would judge sender s Authenticated, credentials.json
\* holds a credential produced by the code exchange of a callback whose state
\* named s, also when one of the callback's two writes fails.
C25_CredentialOwnership ==
    \A s \in Senders :
        check_and_clean_files(s) =>
            /\ credFile.cred # NoContent
            /\ SameIdentity(OwnerOf(credFile.cred), s)

\* ------------------------------------------------------------------ C26
\* C26: in every state a handler can observe (handlers interleave only at their
\* awaits, the callback's exchange and three writes and the webhook's gate and
\* cleanup being one step each), the register and credentials.json, when both
\* are present, were written by the same callback: the register holds the
\* normalized user_number of the callback whose exchange produced the
\* credential.
C26_WrittenTogether ==
    (credFile.exists /\ activeFile.exists) =>
        activeFile = WrittenActiveFile(OwnerOf(credFile.cred))

\* ------------------------------------------------------------------ C27
\* the webhook delivery starting in task t is answered with a consent link and
\* is not processed
LinkInsteadOfReply(t) ==
    /\ task'[t].pc = "done" /\ task'[t].status = 200
    /\ Len(task'[t].trace) = 2
    /\ task'[t].trace[1].ev = "gate" /\ task'[t].trace[1].n = 0
    /\ task'[t].trace[2] = Ev("send", task'[t].from,
                              LinkBody(task'[t].user, task'[t].msg), 0)
    /\ \E l \in inbox' : l.sender = task'[t].user /\ l.body = task'[t].msg

\* C27: one message of a sender the register does not name deletes
\* credentials.json and the sidecar, whether or not that sender ever completes
\* the consent flow, and leaves the register naming the previous sender; and a
\* message of the sender the register names that finds no credentials.json is
\* judged Unauthenticated and answered with a consent link, not processed.
C27_ForeignMessageLogsOut ==
    [][\A t \in Tasks :
         (Starts(t) /\ task'[t].kind = "webhook") =>
            /\ ~is_user_active(task'[t].user) =>
                  /\ credFile' = Absent /\ sidecar' = Absent
                  /\ activeFile' = activeFile
                  /\ LinkInsteadOfReply(t)
            /\ (is_user_active(task'[t].user) /\ ~credFile.exists) =>
                  /\ activeFile' = activeFile
                  /\ LinkInsteadOfReply(t)
      ]_vars

\* sender 1 was authenticated; a message of sender 2 and then one of sender 1
\* have each been answered with a link, no consent given, and the register
\* still names sender 1
C27_Witness ==
    /\ nreq = 2 /\ issued = <<>> /\ ntool = 0
    /\ \A t \in Tasks : task[t].pc # "await"
    /\ \E l \in inbox : l.sender = <<"+", "2">>
    /\ \E l \in inbox : l.sender = <<"+", "1">>
    /\ is_user_active(<<"+", "1">>)
    /\ credFile = Absent /\ sidecar = Absent
    /\ \E t \in Tasks : task[t].kind = "webhook" /\ task[t].seq = 2
                         /\ task[t].user = <<"+", "1">> /\ task[t].trace[1].n = 0

\* ------------------------------------------------------------------ C28
\* C28: the gate verdict is not held across the agent call. A webhook that was
\* judged Authenticated relays the agent's reply and answers 200 when its agent
\* call returns, whatever has become of credentials.json and the register in
\* the meantime, and without asking the gate again.
C28_VerdictNotHeld ==
    [][\A t \in Tasks :
         (Returns(t) /\ task[t].kind = "webhook") =>
            /\ task'[t].status = 200
            /\ Len(task'[t].trace) = 3
            /\ task'[t].trace[1].ev = "gate" /\ task'[t].trace[1].n = 1
            /\ task'[t].trace[2] = Ev("agent", task[t].thread, task[t].msg, 0)
            /\ task'[t].trace[3].ev = "send"
            /\ task'[t].trace[3].who = task[t].from
            /\ task'[t].trace[3].text \in AgentReplies(task[t].msg)
            /\ UNCHANGED <<credFile, sidecar, activeFile>>
      ]_vars

\* sender 1's message was judged Authenticated; during its agent call a message
\* of sender 2 ran the cleanup, and then the callback of sender 2 wrote its own
\* credential and identity; sender 1's handler has relayed a reply and
\* answered 200
C28_Witness ==
    \E a \in Tasks, b \in Tasks :
        /\ task[a].kind = "webhook" /\ task[a].user = <<"+", "1">>
        /\ task[a].pc = "done" /\ task[a].status = 200 /\ task[a].seq = 1
        /\ HasEvent(a, "agent") /\ HasEvent(a, "send")
        /\ task[b].kind = "callback" /\ task[b].seq = 3
        /\ HasEvent(b, "save")
        /\ \E l \in inbox : l.sender = <<"+", "2">>
        /\ credFile = Holding(Cred(task[b].code, task[b].user))
        /\ ~SameIdentity(task[b].user, task[a].user)
        /\ ~is_user_active(task[a].user)
        /\ ntool = 0

\* ------------------------------------------------------------------ C29
\* what the state of the callback starting in task t decodes to
StateOf(t) == DecodeState(task'[t].raw.text)

\* the callback starting in task t brings a code and a state
Complete(t) ==
    /\ Starts(t) /\ task'[t].kind = "callback"
    /\ ~MissingParams(task'[t].code, task'[t].raw)

\* C29: a callback whose state is JSON but not an object is answered 400
\* "Invalid state format" and no code is exchanged; one whose state is an
\* object without user_number has its (valid) code exchanged and then fails,
\* with credentials.json, the sidecar and the register unchanged, no agent call
\* and nothing sent.
C29_StateWithoutSender ==
    [][\A t \in Tasks :
         Complete(t) =>
            /\ StateOf(t).kind = "other" =>
                  /\ task'[t].trace = <<Page("Invalid state format", 400)>>
                  /\ task'[t].status = 400 /\ task'[t].pc = "done"
                  /\ UNCHANGED <<credFile, sidecar, activeFile, issued, inbox>>
            /\ (StateOf(t).kind = "object" /\ ~StateOf(t).hasUser
                  /\ CodeValid(task'[t].code)) =>
                  /\ task'[t].trace = <<Ev("exchange", <<>>, <<>>, task'[t].code)>>
                  /\ task'[t].status = 500 /\ task'[t].pc = "done"
                  /\ issued'[task'[t].code].used
                  /\ issued'[task'[t].code].dispatched = 0
                  /\ UNCHANGED <<credFile, sidecar, activeFile, inbox>>
      ]_vars

\* the code of a consent was spent by a callback whose state is the object {},
\* and the credential and identity of an earlier callback are still in place
C29_Witness ==
    \E t \in Tasks :
        /\ task[t].kind = "callback" /\ task[t].pc = "done" /\ Alone(t)
        /\ task[t].raw = Param(Quote(<<"{", "}">>))
        /\ task[t].status = 500
        /\ task[t].trace = <<Ev("exchange", <<>>, <<>>, task[t].code)>>
        /\ task[t].code \in 1..Len(issued)
        /\ issued[task[t].code].used /\ issued[task[t].code].usedWith = task[t].raw
        /\ credFile.exists /\ credFile.cred.code > 0
        /\ credFile.cred.code # task[t].code
        /\ sidecar = credFile
        /\ is_user_active(credFile.cred.by)

\* ------------------------------------------------------------------ C30
\* the events of one kind in the trace task t has after this step
EventsAfter(t, ev) == {i \in 1..Len(task'[t].trace) : task'[t].trace[i].ev = ev}

\* the credential artifact, the sidecar, the register and the sink's deliveries
\* stay as they are
AuthStateKept == UNCHANGED <<credFile, sidecar, multiFiles, activeFile, inbox, issued>>

\* C30: a /chat request invokes the agent once, with the request's message and
\* thread_id, without a gate verdict; it leaves credentials.json, the sidecar
\* and the register as they are and sends nothing to the sink; its response
\* carries the request's thread_id, null when the request had none.
C30_ChatBypassesGate ==
    [][\A t \in Tasks :
         /\ (Starts(t) /\ task'[t].kind = "chat") =>
               /\ task'[t].pc = "await"
               /\ Len(task'[t].trace) = 1
               /\ task'[t].trace[1].ev = "agent"
               /\ task'[t].trace[1].text = task'[t].msg
               /\ task'[t].raw.present => task'[t].trace[1].who = task'[t].raw.text
               /\ AuthStateKept
         /\ (Returns(t) /\ task[t].kind = "chat") =>
               /\ Len(task'[t].trace) = 2
               /\ SubSeq(task'[t].trace, 1, 1) = task[t].trace
               /\ Cardinality(EventsAfter(t, "agent")) = 1
               /\ EventsAfter(t, "gate") = {} /\ EventsAfter(t, "send") = {}
               /\ task'[t].trace[2].ev = "respond"
               /\ task'[t].trace[2].who = JsonText(task[t].raw)
               /\ task'[t].trace[2].text \in AgentReplies(task[t].msg)
               /\ task'[t].status = 200
               /\ AuthStateKept
      ]_vars

\* a /chat request without thread_id got the agent's reply and a null
\* thread_id back, while no credential and no register exist and a sender's
\* WhatsApp message was answered with the consent link
C30_Witness ==
    \E t \in Tasks, o \in Tasks :
        /\ task[t].kind = "chat" /\ task[t].pc = "done"
        /\ task[t].raw = NoParam
        /\ task[t].trace[1].ev = "agent"
        /\ task[t].trace[2] = Ev("respond", <<"null">>, <<"re:">> \o task[t].msg, 200)
        /\ ~credFile.exists /\ ~sidecar.exists /\ ~activeFile.exists
        /\ task[o].kind = "webhook" /\ task[o].pc = "done"
        /\ task[o].trace[1].ev = "gate" /\ task[o].trace[1].n = 0
        /\ inbox # {}

====
